---------------------------- MODULE Spec2Model ----------------------------
(***************************************************************************)
(* Model of the lancor client (src/src/main.rs): client construction, the  *)
(* four HTTP operations, the request builders with their JSON              *)
(* serialization, and the streaming decoder of chat_completion_stream.     *)
(*                                                                         *)
(* Text is modelled at character level: a text is a sequence of            *)
(* one-character strings.  A byte that is not valid UTF-8 is the token     *)
(* BadByte; lossy decoding turns it into the replacement character.        *)
(* A chunk's JSON object is abstracted to the three characters "{", id,    *)
(* "}" : it is valid exactly when it is a complete object.                 *)
(***************************************************************************)
EXTENDS Integers, Sequences, FiniteSets, TLC

VARIABLES
    ctor,       \* how the client was constructed (history, never changes)
    client,     \* LlamaCppClient: [base_url, api_key]
    pc,         \* position of the call: "ready", "sent", "done"
    op,         \* the operation called
    sent,       \* the outgoing POST, <<>> while none was built
    resp,       \* the HTTP response received, <<>> while none
    result,     \* what the operation returned
    wire,       \* bytes of the response body not yet read
    reads,      \* the items bytes_stream() produced so far, in order
    out,        \* the elements the returned stream yielded so far, in order
    consumer,   \* consumer of the stream: none, idle, awaiting, finished, dropped
    requested,  \* number of stream.next() calls made by the consumer
    chat,       \* a ChatCompletionRequest under construction
    compl,      \* a CompletionRequest under construction
    calls       \* history: last argument of each builder setter called

clientVars  == <<ctor, client, pc, op, sent, resp, result>>
streamVars  == <<wire, reads, out, consumer, requested>>
builderVars == <<chat, compl, calls>>
vars == <<ctor, client, pc, op, sent, resp, result,
          wire, reads, out, consumer, requested, chat, compl, calls>>

\* ------------------------------------------------------------------ bounds
MaxEvents == 2      \* lines the server writes into one response body
MaxReads  == 2      \* network reads one response body is delivered in
MaxMessages == 1    \* messages pushed onto one chat request

\* ------------------------------------------------------------------- text
Min(S) == CHOOSE x \in S : \A y \in S : x <= y

RECURSIVE Flatten(_)
Flatten(ss) == IF ss = <<>> THEN <<>> ELSE Head(ss) \o Flatten(Tail(ss))

BadByte     == "xFF"        \* a byte that is not valid UTF-8
Replacement == "uFFFD"      \* U+FFFD

\* String::from_utf8_lossy
FromUtf8Lossy(bytes) ==
    [i \in 1..Len(bytes) |-> IF bytes[i] = BadByte THEN Replacement ELSE bytes[i]]

\* str::split_inclusive('\n'): pieces that keep their terminator
RECURSIVE SplitInclusive(_)
SplitInclusive(t) ==
    IF t = <<>> THEN <<>>
    ELSE LET nl == {i \in 1..Len(t) : t[i] = "\n"} IN
         IF nl = {} THEN <<t>>
         ELSE <<SubSeq(t, 1, Min(nl))>> \o SplitInclusive(SubSeq(t, Min(nl) + 1, Len(t)))

\* the map of str::lines: strip one "\n", and then one "\r" only if a "\n" was stripped
StripLineEnding(p) ==
    IF p # <<>> /\ p[Len(p)] = "\n"
    THEN LET q == SubSeq(p, 1, Len(p) - 1) IN
         IF q # <<>> /\ q[Len(q)] = "\r" THEN SubSeq(q, 1, Len(q) - 1) ELSE q
    ELSE p

\* str::lines
Lines(t) == LET ps == SplitInclusive(t) IN [i \in 1..Len(ps) |-> StripLineEnding(ps[i])]

DataPrefix == <<"d", "a", "t", "a", ":", " ">>
PrefixLen  == 6
DoneMarker == <<"[", "D", "O", "N", "E", "]">>

\* str::starts_with
StartsWith(s, p) == Len(s) >= Len(p) /\ SubSeq(s, 1, Len(p)) = p

\* &line[6..]
Payload(line) == SubSeq(line, PrefixLen + 1, Len(line))

\* -------------------------------------------------------- stream elements
Ids == {"a", "b"}
Chunk(id)    == [kind |-> "chunk", val |-> id]
Failure(msg) == [kind |-> "error", val |-> msg]
NoValidData  == Failure("No valid data in chunk")
ParseFailed  == Failure("Failed to parse chunk")
ReadFailed   == Failure("Failed to read stream chunk")

JsonSpace == {" ", "\r", "\n", "\t"}

RECURSIVE TrimLeft(_)
TrimLeft(s) == IF s # <<>> /\ Head(s) \in JsonSpace THEN TrimLeft(Tail(s)) ELSE s

RECURSIVE TrimRight(_)
TrimRight(s) ==
    IF s # <<>> /\ s[Len(s)] \in JsonSpace THEN TrimRight(SubSeq(s, 1, Len(s) - 1)) ELSE s

\* serde_json::from_str::<ChatCompletionChunk>: white space around the one
\* object is accepted, anything else before, after or missing is an error
ParsesAsChunk(data) ==
    LET j == TrimRight(TrimLeft(data)) IN
    Len(j) = 3 /\ j[1] = "{" /\ j[2] \in Ids /\ j[3] = "}"

\* ParseChunk whose failure is reported as the absence of data
ParseChunkAsNoData(data) ==
    IF ParsesAsChunk(data) THEN Chunk(TrimLeft(data)[2]) ELSE NoValidData

ParseChunk(data) ==
    IF ParsesAsChunk(data) THEN Chunk(TrimLeft(data)[2]) ELSE ParseFailed

\* ScanLines without the test for the [DONE] sentinel
RECURSIVE ScanLinesNoSentinel(_)
ScanLinesNoSentinel(ls) ==
    IF ls = <<>> THEN NoValidData
    ELSE IF StartsWith(Head(ls), DataPrefix)
         THEN ParseChunk(Payload(Head(ls)))
         ELSE ScanLinesNoSentinel(Tail(ls))

\* ScanLines that lets a later data line of the read overwrite an earlier one
RECURSIVE ScanLinesLast(_)
ScanLinesLast(ls) ==
    IF ls = <<>> THEN NoValidData
    ELSE LET later == ScanLinesLast(Tail(ls)) IN
         IF later # NoValidData THEN later
         ELSE IF StartsWith(Head(ls), DataPrefix) /\ Payload(Head(ls)) # DoneMarker
              THEN ParseChunk(Payload(Head(ls)))
              ELSE NoValidData

\* the for loop over text.lines() and the bail! after it
RECURSIVE ScanLines(_)
ScanLines(ls) ==
    IF ls = <<>> THEN NoValidData
    ELSE IF StartsWith(Head(ls), DataPrefix)
         THEN IF Payload(Head(ls)) = DoneMarker
              THEN ScanLines(Tail(ls))
              ELSE ParseChunk(Payload(Head(ls)))
         ELSE ScanLines(Tail(ls))

\* an item of response.bytes_stream()
OkRead(bytes) == [ok |-> TRUE, bytes |-> bytes]
ErrRead       == [ok |-> FALSE, bytes |-> <<>>]

\* the closure given to map
Decode(item) ==
    IF ~item.ok THEN ReadFailed
    ELSE ScanLines(Lines(FromUtf8Lossy(item.bytes)))


\* ------------------------------------------------------------ the client
None    == <<>>
Some(v) == <<v>>

Tokens      == {"jafong", "k2"}
GivenUrl    == "http://localhost:1337"
DefaultUrl  == "http://localhost:8080"

\* LlamaCppClient::new
New(base_url) == [base_url |-> base_url, api_key |-> None]

\* LlamaCppClient::with_api_key
WithApiKey(base_url, api_key) == [base_url |-> base_url, api_key |-> Some(api_key)]

\* LlamaCppClient::default
Default == New(DefaultUrl)

Ops == {"chat_completion", "chat_completion_stream", "completion", "embedding"}

\* the path each operation formats into its url
Endpoint(o) ==
    CASE o = "chat_completion"        -> "/v1/chat/completions"
      [] o = "chat_completion_stream" -> "/v1/chat/completions"
      [] o = "completion"             -> "/v1/completions"
      [] o = "embedding"              -> "/v1/embeddings"

\* Headers that always adds the header, with an empty token when there is no key
HeadersAlways(c) ==
    Some([name |-> "Authorization", scheme |-> "Bearer ",
          token |-> IF c.api_key # None THEN c.api_key[1] ELSE ""])

\* the headers of the request: Authorization is added only for Some(api_key)
Headers(c) ==
    IF c.api_key # None
    THEN Some([name |-> "Authorization", scheme |-> "Bearer ", token |-> c.api_key[1]])
    ELSE None

\* self.http_client.post(&url).json(&request) and the optional header
BuildRequest(c, o) ==
    [method |-> "POST", url |-> <<c.base_url, Endpoint(o)>>, headers |-> Headers(c)]

\* StatusCode::is_success
IsSuccess(status) == 200 <= status /\ status <= 299

Statuses == {200, 301, 404, 500}

\* bodies a server answers a failed request with
ErrorBodies == {"{\"error\":\"oom\"}", "not found"}
\* bodies a server answers a successful non-streaming request with
GoodBody(o) == "json of " \o o
OkBodies(o) == {GoodBody(o), "{}"}

NoResult == [kind |-> "none", status |-> 0, text |-> ""]

\* anyhow::bail!("API error ({}): {}", status, error_text)
ApiError(status, error_text) == [kind |-> "api_error", status |-> status, text |-> error_text]

\* response.text().await.unwrap_or_default()
ErrorText(r) == IF r.readable THEN r.body ELSE ""

\* response.json().await.context("Failed to parse ... response")
ParseBody(o, r) ==
    IF r.readable /\ r.body = GoodBody(o)
    THEN [kind |-> "response", status |-> r.status, text |-> r.body]
    ELSE [kind |-> "parse_error", status |-> r.status, text |-> ""]

TransportError == [kind |-> "transport_error", status |-> 0, text |-> ""]
StreamResult(status) == [kind |-> "stream", status |-> status, text |-> ""]

\* ------------------------------------------------- response bodies (SSE)
EventLines ==
    { DataPrefix \o <<"{", "a", "}">> \o <<"\n">>,
      DataPrefix \o <<"{", "b", "}">> \o <<"\r", "\n">>,
      DataPrefix \o DoneMarker \o <<"\n">>,
      DataPrefix \o <<"}">> \o <<"\n">>,
      <<":", BadByte, "\n">> }

SeqsUpTo(S, n) == UNION {[1..k -> S] : k \in 0..n}

\* what a server may write into the body of a streaming response
StreamBodies == {Flatten(es) : es \in SeqsUpTo(EventLines, MaxEvents)}

\* --------------------------------------------------------------- builders
F32Values  == {"0.7", "NaN"}
NonFinite  == {"NaN", "inf", "-inf"}
U32Values  == {"50", "100"}
BoolValues == {"true", "false"}
StopValues == {<<>>, <<"END">>}

\* ChatCompletionRequest::new
NewChat(model) ==
    [model |-> model, messages |-> <<>>, temperature |-> None, max_tokens |-> None,
     top_p |-> None, stream |-> None, stop |-> None]

\* CompletionRequest::new
NewCompletion(model, prompt) ==
    [model |-> model, prompt |-> prompt, temperature |-> None, max_tokens |-> None,
     stream |-> None]

\* the setters of both builders: self.<field> = Some(value); self
SetTemperature(req, v) == [req EXCEPT !.temperature = Some(v)]
SetMaxTokens(req, v)   == [req EXCEPT !.max_tokens = Some(v)]
SetTopPWrongField(req, v) == [req EXCEPT !.temperature = Some(v)]
SetTopP(req, v)        == [req EXCEPT !.top_p = Some(v)]
SetStream(req, v)      == [req EXCEPT !.stream = Some(v)]
SetStop(req, v)        == [req EXCEPT !.stop = Some(v)]

JNull     == [t |-> "null", v |-> "null"]
JNumber(x) == [t |-> "number", v |-> x]
JBool(x)   == [t |-> "bool", v |-> x]
JString(x) == [t |-> "string", v |-> x]
JArray(x)  == [t |-> "array", v |-> x]

\* serde_json's serialize_f32: a value that is not finite is written as null
SerializeF32(x) == IF x \in NonFinite THEN JNull ELSE JNumber(x)

ChatOptional       == {"temperature", "max_tokens", "top_p", "stream", "stop"}
CompletionOptional == {"temperature", "max_tokens", "stream"}

\* how serde writes the value of a field that is Some(x)
SerializeField(f, x) ==
    CASE f \in {"temperature", "top_p"} -> SerializeF32(x)
      [] f = "max_tokens"               -> JNumber(x)
      [] f = "stream"                   -> JBool(x)
      [] f = "stop"                     -> JArray(x)

\* #[serde(skip_serializing_if = "Option::is_none")]
Emitted(req, optional) == {f \in optional : req[f] # None}

\* derive(Serialize) of ChatCompletionRequest: the payload as field -> JSON value
SerializeChat(req) ==
    [f \in {"model", "messages"} \cup Emitted(req, ChatOptional) |->
        CASE f = "model"    -> JString(req.model)
          [] f = "messages" -> JArray(req.messages)
          [] OTHER          -> SerializeField(f, req[f][1])]

\* derive(Serialize) of CompletionRequest
SerializeCompletion(req) ==
    [f \in {"model", "prompt"} \cup Emitted(req, CompletionOptional) |->
        CASE f = "model"  -> JString(req.model)
          [] f = "prompt" -> JString(req.prompt)
          [] OTHER        -> SerializeField(f, req[f][1])]

\* Message::user
UserMessage(content) == [role |-> "user", content |-> content]

\* ChatCompletionRequest::message
PushMessage(req, m) == [req EXCEPT !.messages = Append(@, m)]

NoCalls == [f \in ChatOptional |-> None]
IdleChat       == NewChat("m")
IdleCompletion == NewCompletion("m", "p")

\* ------------------------------------------------------ the call, actions
\* what a server may answer: any status with any body, whose transfer may
\* break; a server that streams answers 200 with an event stream as body
ServerResponses(o) ==
    [status : Statuses, body : ErrorBodies \cup OkBodies(o), readable : BOOLEAN, sse : {<<>>}]
    \cup (IF o = "chat_completion_stream"
          THEN [status : {200}, body : {"event-stream"}, readable : {TRUE}, sse : StreamBodies]
          ELSE {})

Constructions ==
    {[fn |-> "new", key |-> "", url |-> GivenUrl], [fn |-> "default", key |-> "", url |-> DefaultUrl]}
    \cup {[fn |-> "with_api_key", key |-> k, url |-> GivenUrl] : k \in Tokens}

Construct(c) ==
    CASE c.fn = "new"          -> New(c.url)
      [] c.fn = "default"      -> Default
      [] c.fn = "with_api_key" -> WithApiKey(c.url, c.key)

NoStream ==
    /\ wire = <<>>
    /\ reads = <<>>
    /\ out = <<>>
    /\ consumer = "none"
    /\ requested = 0

NoBuilder ==
    /\ chat = IdleChat
    /\ compl = IdleCompletion
    /\ calls = [chat |-> NoCalls, compl |-> NoCalls]

Init ==
    /\ ctor \in Constructions
    /\ client = Construct(ctor)
    /\ pc = "ready"
    /\ op = "none"
    /\ sent = None
    /\ resp = None
    /\ result = NoResult
    /\ NoStream
    /\ NoBuilder

\* the operation builds its request and sends it
Call(o) ==
    /\ pc = "ready"
    /\ op' = o
    /\ sent' = Some(BuildRequest(client, o))
    /\ pc' = "sent"
    /\ UNCHANGED <<ctor, client, resp, result>>
    /\ UNCHANGED streamVars
    /\ UNCHANGED builderVars

\* req.send().await fails: the error is returned with its context
SendFails ==
    /\ pc = "sent"
    /\ result' = TransportError
    /\ pc' = "done"
    /\ UNCHANGED <<ctor, client, op, sent, resp>>
    /\ UNCHANGED streamVars
    /\ UNCHANGED builderVars

\* what the operation returns for the response r
Outcome(o, r) ==
    IF ~IsSuccess(r.status) THEN ApiError(r.status, ErrorText(r))
    ELSE IF o = "chat_completion_stream" THEN StreamResult(r.status)
    ELSE ParseBody(o, r)

\* req.send().await returns a response: status check, then body or stream
Receive(r) ==
    /\ pc = "sent"
    /\ resp' = Some(r)
    /\ result' = Outcome(op, r)
    /\ pc' = "done"
    /\ IF Outcome(op, r).kind = "stream"
       THEN wire' = r.sse /\ consumer' = "idle"
       ELSE wire' = wire /\ consumer' = consumer
    /\ UNCHANGED <<ctor, client, op, sent, reads, out, requested>>
    /\ UNCHANGED builderVars

\* ---------------------------------------------------- the stream, actions
\* the consumer calls stream.next()
Request ==
    /\ consumer = "idle"
    /\ consumer' = "awaiting"
    /\ requested' = requested + 1
    /\ UNCHANGED <<wire, reads, out>>
    /\ UNCHANGED clientVars
    /\ UNCHANGED builderVars

\* a decoder that reads ahead of its consumer
PollsInnerEagerly == consumer \in {"idle", "awaiting"}

\* Map::poll_next polls the byte stream only while the consumer polls it
PollsInner == consumer = "awaiting"

\* a decoder that ends the sequence after a failure element
YieldsNoneAfterFailure ==
    IF wire = <<>> THEN TRUE
    ELSE IF out = <<>> THEN FALSE ELSE out[Len(out)].kind = "error"

\* Map::poll_next ends the sequence when the byte stream returned None
YieldsNone == wire = <<>>

\* a decoder that hands the newest element out first
YieldPrepended(item) ==
    /\ reads' = Append(reads, item)
    /\ out' = <<Decode(item)>> \o out
    /\ consumer' = "idle"

\* the unterminated end of the previous read, as a line buffer would keep it
Carry ==
    IF reads = <<>> THEN <<>>
    ELSE LET ps == SplitInclusive(reads[Len(reads)].bytes) IN
         IF ps = <<>> THEN <<>>
         ELSE IF ps[Len(ps)][Len(ps[Len(ps)])] = "\n" THEN <<>> ELSE ps[Len(ps)]

\* a decoder that buffers partial lines across reads
YieldBuffered(item) ==
    /\ reads' = Append(reads, item)
    /\ out' = Append(out, IF item.ok THEN Decode(OkRead(Carry \o item.bytes)) ELSE Decode(item))
    /\ consumer' = "idle"

\* Map::poll_next on Some(item): the closure's value is the next element
Yield(item) ==
    /\ reads' = Append(reads, item)
    /\ out' = Append(out, Decode(item))
    /\ consumer' = "idle"

\* the byte stream delivers the next k bytes of the body
Read(k) ==
    /\ PollsInner
    /\ k \in 1..Len(wire)
    /\ IF Len(reads) + 1 < MaxReads THEN TRUE ELSE k = Len(wire)
    /\ wire' = SubSeq(wire, k + 1, Len(wire))
    /\ Yield(OkRead(SubSeq(wire, 1, k)))
    /\ UNCHANGED requested
    /\ UNCHANGED clientVars
    /\ UNCHANGED builderVars

\* the byte stream fails: the connection is lost with the rest of the body
ReadError ==
    /\ PollsInner
    /\ Len(reads) < MaxReads
    /\ IF reads = <<>> THEN TRUE ELSE reads[Len(reads)].ok
    /\ wire' = <<>>
    /\ Yield(ErrRead)
    /\ UNCHANGED requested
    /\ UNCHANGED clientVars
    /\ UNCHANGED builderVars

\* the byte stream has ended: next() returns None and the while loop exits
StreamEnd ==
    /\ PollsInner
    /\ YieldsNone
    /\ consumer' = "finished"
    /\ UNCHANGED <<wire, reads, out, requested>>
    /\ UNCHANGED clientVars
    /\ UNCHANGED builderVars

\* the consumer drops the stream instead of asking for more
Drop ==
    /\ consumer = "idle"
    /\ consumer' = "dropped"
    /\ UNCHANGED <<wire, reads, out, requested>>
    /\ UNCHANGED clientVars
    /\ UNCHANGED builderVars

Next ==
    \/ \E o \in Ops : Call(o)
    \/ SendFails
    \/ pc = "sent" /\ \E r \in ServerResponses(op) : Receive(r)
    \/ Request
    \/ \E k \in 1..Len(wire) : Read(k)
    \/ ReadError
    \/ StreamEnd
    \/ Drop

Spec == Init /\ [][Next]_vars

\* -------------------------------------- the stream alone, once returned
\* the state in which chat_completion_stream has returned Ok(stream) to a
\* client made by default(): the server answered 200 with some body
InitStream ==
    /\ ctor = [fn |-> "default", key |-> "", url |-> DefaultUrl]
    /\ client = Default
    /\ pc = "done"
    /\ op = "chat_completion_stream"
    /\ sent = Some(BuildRequest(Default, "chat_completion_stream"))
    /\ wire \in StreamBodies
    /\ resp = Some([status |-> 200, body |-> "event-stream", readable |-> TRUE, sse |-> wire])
    /\ result = Outcome("chat_completion_stream", resp[1])
    /\ reads = <<>>
    /\ out = <<>>
    /\ consumer = "idle"
    /\ requested = 0
    /\ NoBuilder

NextStream ==
    \/ Request
    \/ \E k \in 1..Len(wire) : Read(k)
    \/ ReadError
    \/ StreamEnd
    \/ Drop

SpecStream == InitStream /\ [][NextStream]_vars

\* --------------------------------------------------- the builders, actions
InitBuilder ==
    /\ ctor = [fn |-> "default", key |-> "", url |-> DefaultUrl]
    /\ client = Default
    /\ pc = "ready"
    /\ op = "none"
    /\ sent = None
    /\ resp = None
    /\ result = NoResult
    /\ NoStream
    /\ chat = NewChat("m")
    /\ compl = NewCompletion("m", "p")
    /\ calls = [chat |-> NoCalls, compl |-> NoCalls]

ChatSetter(f, v, req) ==
    /\ chat' = req
    /\ calls' = [calls EXCEPT !.chat[f] = Some(v)]
    /\ UNCHANGED compl
    /\ UNCHANGED clientVars
    /\ UNCHANGED streamVars

CompletionSetter(f, v, req) ==
    /\ compl' = req
    /\ calls' = [calls EXCEPT !.compl[f] = Some(v)]
    /\ UNCHANGED chat
    /\ UNCHANGED clientVars
    /\ UNCHANGED streamVars

ChatMessage ==
    /\ Len(chat.messages) < MaxMessages
    /\ chat' = PushMessage(chat, UserMessage("hi"))
    /\ UNCHANGED <<compl, calls>>
    /\ UNCHANGED clientVars
    /\ UNCHANGED streamVars

ChatTemperature      == \E v \in F32Values  : ChatSetter("temperature", v, SetTemperature(chat, v))
ChatMaxTokens        == \E v \in U32Values  : ChatSetter("max_tokens", v, SetMaxTokens(chat, v))
ChatTopP             == \E v \in F32Values  : ChatSetter("top_p", v, SetTopP(chat, v))
ChatStream           == \E v \in BoolValues : ChatSetter("stream", v, SetStream(chat, v))
ChatStop             == \E v \in StopValues : ChatSetter("stop", v, SetStop(chat, v))
CompletionTemperature == \E v \in F32Values  : CompletionSetter("temperature", v, SetTemperature(compl, v))
CompletionMaxTokens   == \E v \in U32Values  : CompletionSetter("max_tokens", v, SetMaxTokens(compl, v))
CompletionStream      == \E v \in BoolValues : CompletionSetter("stream", v, SetStream(compl, v))

NextBuilder ==
    \/ ChatMessage
    \/ ChatTemperature
    \/ ChatMaxTokens
    \/ ChatTopP
    \/ ChatStream
    \/ ChatStop
    \/ CompletionTemperature
    \/ CompletionMaxTokens
    \/ CompletionStream

SpecBuilder == InitBuilder /\ [][NextBuilder]_vars

\* ================================================================ claims
Text(i)       == FromUtf8Lossy(reads[i].bytes)
ReadLines(i)  == Lines(Text(i))
OkReads       == {i \in 1..Len(reads) : reads[i].ok}
IsFailure(e)  == e.kind = "error"
IsDataLine(l) == StartsWith(l, DataPrefix)
\* the lines of a read that are data lines with a payload other than [DONE]
Deciding(ls)  == {k \in 1..Len(ls) : IsDataLine(ls[k]) /\ Payload(ls[k]) # DoneMarker}
\* the lines of a read that are data lines with a valid chunk as payload
Parseable(ls) == {k \in 1..Len(ls) : IsDataLine(ls[k]) /\ ParsesAsChunk(Payload(ls[k]))}
SuccessStatuses == 200..299

\* C1: the sequence yields one element per network read, each a chunk or an
\* error, and it ends only when the byte stream has ended: neither a failure
\* element nor a [DONE] line ends it while bytes remain.
C1_OneElementPerRead ==
    /\ Len(out) = Len(reads)
    /\ \A i \in 1..Len(out) : out[i].kind \in {"chunk", "error"}
    /\ consumer = "finished" => wire = <<>>
    /\ consumer = "finished" => requested = Len(reads) + 1

C1_Witness ==
    /\ consumer = "finished"
    /\ Len(out) = 2
    /\ IsFailure(out[1])
    /\ ~IsFailure(out[2])

\* C2: the i-th element is the decoding of the i-th read; the reads
\* `data: {a}` then `data: {b}` yield the ids a then b, in that order.
C2_ReadOrderPreserved ==
    /\ Len(out) = Len(reads)
    /\ \A i \in 1..Len(out) : out[i] = Decode(reads[i])
    /\ \A i \in 1..(Len(out) - 1) :
          ( /\ reads[i] = OkRead(DataPrefix \o <<"{", "a", "}", "\n">>)
            /\ reads[i + 1] = OkRead(DataPrefix \o <<"{", "b", "}", "\r", "\n">>) )
          => out[i] = Chunk("a") /\ out[i + 1] = Chunk("b")

C2_Witness ==
    /\ Len(reads) = 2
    /\ reads[1] = OkRead(DataPrefix \o <<"{", "a", "}", "\n">>)
    /\ reads[2] = OkRead(DataPrefix \o <<"{", "b", "}", "\r", "\n">>)
    /\ out = <<Chunk("a"), Chunk("b")>>

DoneOnly == {DataPrefix \o DoneMarker \o <<"\n">>, DataPrefix \o DoneMarker}
IsDoneRead(i) == reads[i].ok /\ reads[i].bytes \in DoneOnly

\* C3: a read that holds only the line `data: [DONE]` yields one failure
\* "No valid data in chunk"; it does not end the sequence, the reads after
\* it are still yielded and the sequence ends only with the byte stream.
C3_DoneIsNotTheEnd ==
    \A i \in 1..Len(reads) : IsDoneRead(i) =>
        /\ Len(out) >= i
        /\ out[i] = NoValidData
        /\ \A j \in (i + 1)..Len(reads) : Len(out) >= j /\ out[j] = Decode(reads[j])
        /\ consumer = "finished" => wire = <<>>

C3_Witness ==
    /\ Len(reads) = 2
    /\ IsDoneRead(1)
    /\ out[1] = NoValidData
    /\ out[2] = Chunk("a")
    /\ consumer = "finished"

\* C7: the result of a read is decided by its first `data: ` line whose
\* payload is not [DONE]: other lines before it are ignored, [DONE] lines
\* are skipped, and no later line of the read is surfaced.
C7_FirstDataLineDecides ==
    \A i \in OkReads :
        LET ls == ReadLines(i) IN
        Deciding(ls) # {} =>
            /\ Len(out) >= i
            /\ out[i] = ParseChunk(Payload(ls[Min(Deciding(ls))]))

C7_Witness ==
    \E i \in OkReads :
        /\ Cardinality(Deciding(ReadLines(i))) = 2
        /\ ReadLines(i)[2] = DataPrefix \o <<"{", "b", "}">>
        /\ out[i] = Chunk("a")

\* C8 as stated: every read in which no line yields a parseable chunk
\* yields the failure "No valid data in chunk".
C8_Original ==
    \A i \in OkReads :
        Parseable(ReadLines(i)) = {} => Len(out) >= i /\ out[i] = NoValidData

\* C8 as amended: a read without a `data: ` line whose payload is other than
\* [DONE] yields the failure "No valid data in chunk"; a read whose first
\* such line is not a valid chunk yields the failure "Failed to parse chunk".
C8_FailureKinds ==
    \A i \in OkReads :
        LET ls == ReadLines(i) IN
        /\ Len(out) >= i
        /\ Deciding(ls) = {} => out[i] = NoValidData
        /\ ( /\ Deciding(ls) # {}
             /\ ~ParsesAsChunk(Payload(ls[Min(Deciding(ls))])) ) => out[i] = ParseFailed

C8_Witness ==
    /\ Len(reads) = 2
    /\ reads[1] = OkRead(DataPrefix \o <<"}", "\n">>)
    /\ out[1] = ParseFailed
    /\ IsDoneRead(2)
    /\ out[2] = NoValidData

EndsOpen(t)   == IF t = <<>> THEN FALSE ELSE t[Len(t)] # "\n"
HasNewline(t) == \E k \in 1..Len(t) : t[k] = "\n"
ValidDataLine(l) == IsDataLine(l) /\ ParsesAsChunk(Payload(l))

\* the last line of read i begins at a line boundary of the body
StartsAtLine(i) ==
    IF HasNewline(Text(i)) \/ i = 1 THEN TRUE
    ELSE IF reads[i - 1].ok THEN ~EndsOpen(Text(i - 1)) ELSE FALSE

\* one valid `data: {json}` line is split between read i and read i+1, and
\* neither fragment is a complete valid data line by itself
SplitAt(i) ==
    /\ i \in OkReads
    /\ (i + 1) \in OkReads
    /\ EndsOpen(Text(i))
    /\ HasNewline(Text(i + 1))
    /\ StartsAtLine(i)
    /\ LET n == Len(ReadLines(i)) IN
       /\ ValidDataLine(Lines(Text(i) \o Text(i + 1))[n])
       /\ ~ValidDataLine(ReadLines(i)[n])
       /\ ~ValidDataLine(ReadLines(i + 1)[1])

\* no line of the two reads other than the two fragments is a `data: ` line
\* with a payload other than [DONE]
NoOtherDataLine(i) ==
    /\ Deciding(ReadLines(i)) \subseteq {Len(ReadLines(i))}
    /\ Deciding(ReadLines(i + 1)) \subseteq {1}

\* C9 as stated: whenever a data line is split across two consecutive reads,
\* both reads yield failure elements.
C9_Original ==
    \A i \in 1..(Len(out) - 1) :
        SplitAt(i) => IsFailure(out[i]) /\ IsFailure(out[i + 1])

\* C9 as amended: equal reads yield equal elements wherever they occur, and a
\* data line split across two consecutive reads that hold no other `data: `
\* line with a payload other than [DONE] yields two failure elements.
C9_SplitLineIsLost ==
    /\ \A i, j \in 1..Len(out) : reads[i] = reads[j] => out[i] = out[j]
    /\ \A i \in 1..(Len(out) - 1) :
          SplitAt(i) /\ NoOtherDataLine(i) => IsFailure(out[i]) /\ IsFailure(out[i + 1])

C9_Witness ==
    /\ Len(out) = 2
    /\ SplitAt(1)
    /\ NoOtherDataLine(1)
    /\ out = <<ParseFailed, NoValidData>>

\* C10: the decoder never reads ahead: the reads consumed never outnumber
\* the elements requested, a step consumes at most one read and only while
\* a request is pending, and nothing is read once the consumer has stopped.
C10_PullBased ==
    [][ /\ Len(reads') <= requested'
        /\ Len(reads') <= Len(reads) + 1
        /\ Len(reads') > Len(reads) => consumer = "awaiting" /\ requested' = requested
        /\ consumer \in {"dropped", "finished"} => reads' = reads /\ wire' = wire
      ]_vars

C10_Witness ==
    /\ consumer = "dropped"
    /\ wire # <<>>
    /\ Len(reads) = 1
    /\ requested = 1

\* C4: a response whose status is not 2xx makes the operation return an API
\* error that carries the status code and the body text; the body is not
\* parsed and no stream is returned.
C4_ApiErrorCarriesBody ==
    (pc = "done" /\ resp # None) =>
        (resp[1].status \notin SuccessStatuses =>
            /\ result.kind = "api_error"
            /\ result.status = resp[1].status
            /\ result.text = resp[1].body
            /\ consumer = "none"
            /\ out = <<>>)

\* What the operations do guarantee for a status that is not 2xx: an API
\* error with the status code, and with the body text unless reading the
\* body failed, in which case the text is empty.
ApiErrorExceptUnreadBody ==
    (pc = "done" /\ resp # None) =>
        (resp[1].status \notin SuccessStatuses =>
            /\ result.kind = "api_error"
            /\ result.status = resp[1].status
            /\ result.text = IF resp[1].readable THEN resp[1].body ELSE ""
            /\ consumer = "none"
            /\ out = <<>>)

\* C6: the POST carries `Authorization: Bearer <token>` exactly when the
\* client was constructed by with_api_key, with the token given there.
C6_BearerIffConfigured ==
    sent # None =>
        LET h == sent[1].headers IN
        /\ h # None <=> ctor.fn = "with_api_key"
        /\ h # None => h[1] = [name |-> "Authorization", scheme |-> "Bearer ", token |-> ctor.key]
        /\ sent[1].method = "POST"

C6_Witness ==
    /\ pc = "done"
    /\ op = "chat_completion_stream"
    /\ ctor.fn = "with_api_key"
    /\ sent[1].headers[1].token = "k2"

\* the JSON value that is exactly the value v given to the setter of field f
ExactJson(f, v) ==
    CASE f \in {"temperature", "top_p", "max_tokens"} -> JNumber(v)
      [] f = "stream" -> JBool(v)
      [] f = "stop"   -> JArray(v)

\* as ExactJson, but a float that is not finite is written as null
WireJson(f, v) ==
    IF f \in {"temperature", "top_p"} /\ v \in {"NaN", "inf", "-inf"}
    THEN JNull ELSE ExactJson(f, v)

PresentIffCalled(payload, made, optional) ==
    \A f \in ChatOptional :
        /\ f \in DOMAIN payload <=> (f \in optional /\ made[f] # None)
        /\ f \in DOMAIN payload => f \in optional

\* C5 as stated: an optional field is in the payload iff its setter was
\* called, it then carries the value of the last call, and it is never null.
C5_Original ==
    /\ PresentIffCalled(SerializeChat(chat), calls.chat, ChatOptional)
    /\ PresentIffCalled(SerializeCompletion(compl), calls.compl, CompletionOptional)
    /\ \A f \in ChatOptional : calls.chat[f] # None =>
          SerializeChat(chat)[f] = ExactJson(f, calls.chat[f][1])
    /\ \A f \in CompletionOptional : calls.compl[f] # None =>
          SerializeCompletion(compl)[f] = ExactJson(f, calls.compl[f][1])

\* C5 as amended: an optional field is in the payload iff its setter was
\* called; it then carries the value of the last call, except that a
\* temperature or top_p that is not a finite number is written as null; a
\* field whose setter was not called is absent, never null.
C5_OptionalFields ==
    /\ PresentIffCalled(SerializeChat(chat), calls.chat, ChatOptional)
    /\ PresentIffCalled(SerializeCompletion(compl), calls.compl, CompletionOptional)
    /\ \A f \in ChatOptional : calls.chat[f] # None =>
          SerializeChat(chat)[f] = WireJson(f, calls.chat[f][1])
    /\ \A f \in CompletionOptional : calls.compl[f] # None =>
          SerializeCompletion(compl)[f] = WireJson(f, calls.compl[f][1])

C5_Witness ==
    /\ calls.chat["temperature"] = Some("0.7")
    /\ calls.chat["top_p"] = Some("NaN")
    /\ calls.chat["max_tokens"] = None
    /\ calls.compl["stream"] = Some("true")
    /\ DOMAIN SerializeChat(chat) = {"model", "messages", "temperature", "top_p"}
    /\ SerializeChat(chat)["top_p"] = JNull

=============================================================================
